---- MODULE Spec2Model ----
(***************************************************************************)
(* A model of powerbi-tom-parser: the BIM document loader (parseBimFile),  *)
(* the encoding detector (detectAndDecodeBom), the model assembler         *)
(* (parseBimJson) with its entity normalizers, and the enum mappers.       *)
(*                                                                         *)
(* JavaScript values are modelled as a generic tagged tree                 *)
(*   [t |-> type tag, s |-> scalar payload, c |-> children]                *)
(* where c is a tuple for arrays and a function from property names to     *)
(* values for objects.  A property that is not in DOMAIN c is absent.      *)
(***************************************************************************)
EXTENDS Integers, Sequences, FiniteSets, TLC

VARIABLES
    json,       \* SpecJson: the document handed to parseBimJson
    options,    \* SpecJson: the options handed to parseBimJson
    result,     \* SpecJson: the completion of parseBimJson, or Pending
    raw,        \* SpecMap: a raw column / partition node
    mapper,     \* SpecMap: which normalizer has been applied to raw
    mapped,     \* SpecMap: the entity the normalizer produced
    text,       \* SpecDecode: the document text that was saved (UTF-16 code units)
    encoding,   \* SpecDecode: how the file was written
    buffer,     \* SpecDecode: the bytes handed to detectAndDecodeBom
    decoded,    \* SpecDecode: the completion of detectAndDecodeBom, or Pending
    calls,      \* Spec: the parseBimFile calls, by call id
    invocations \* SpecRepeat: the parseBimJson calls made so far, in order

vars == <<json, options, result, raw, mapper, mapped,
          text, encoding, buffer, decoded, calls, invocations>>

-----------------------------------------------------------------------------
(* JavaScript values                                                       *)

Undefined == [t |-> "undefined", s |-> "", c |-> <<>>]
Null == [t |-> "null", s |-> "", c |-> <<>>]
True == [t |-> "boolean", s |-> "true", c |-> <<>>]
False == [t |-> "boolean", s |-> "false", c |-> <<>>]
Num(n) == [t |-> "number", s |-> n, c |-> <<>>]
Str(x) == [t |-> "string", s |-> x, c |-> <<>>]
Arr(a) == [t |-> "array", s |-> "", c |-> a]
Obj(f) == [t |-> "object", s |-> "", c |-> f]
Fun(n) == [t |-> "function", s |-> n, c |-> <<>>]
EmptyObj == Obj([k \in {} |-> Undefined])
EmptyArr == Arr(<<>>)

\* v == null || v === undefined
Nullish(v) == v.t \in {"undefined", "null"}

\* ToBoolean(v): undefined, null, false, 0 and "" are falsy
Truthy(v) ==
    CASE v.t \in {"undefined", "null"} -> FALSE
      [] v.t = "boolean" -> v.s = "true"
      [] v.t = "number" -> v.s # "0"
      [] v.t = "string" -> v.s # ""
      [] OTHER -> TRUE

\* v.k for a value v that is neither null nor undefined: own properties of
\* objects; none of the property names the parser reads exists on a
\* primitive wrapper, on Array.prototype or on Object.prototype
Get(v, k) ==
    IF v.t = "object" /\ k \in DOMAIN v.c THEN v.c[k] ELSE Undefined

\* v ?? d
Coalesce(v, d) == IF Nullish(v) THEN d ELSE v

\* v === "x" for a string literal x
Is(v, x) == v.t = "string" /\ v.s = x

\* Array.isArray(v)
IsArray(v) == v.t = "array"

\* arr.map(F) and arr.filter(P) on the children of an array
Map(a, F(_)) == [i \in 1..Len(a) |-> F(a[i])]
Filter(a, P(_)) == SelectSeq(a, P)

\* completions of a call
Return(v) == [kind |-> "return", value |-> v, error |-> Undefined]
Throw(e) == [kind |-> "throw", value |-> Undefined, error |-> e]
Pending == [kind |-> "pending", value |-> Undefined, error |-> Undefined]

\* the variables of a specification that another specification leaves idle
InitJsonIdle == json = Undefined /\ options = Undefined /\ result = Pending

InitMapIdle == raw = Undefined /\ mapper = "none" /\ mapped = Undefined

InitDecodeIdle ==
    text = <<>> /\ encoding = "none" /\ buffer = <<>> /\ decoded = Pending
InitFileIdle == calls = <<>>
InitRepeatIdle == invocations = <<>>

-----------------------------------------------------------------------------
(* types/index.js                                                          *)

DataType ==
    [Int64 |-> Str("Int64"), Double |-> Str("Double"),
     Boolean |-> Str("Boolean"), String |-> Str("String"),
     DateTime |-> Str("DateTime"), Decimal |-> Str("Decimal"),
     Binary |-> Str("Binary"), Table |-> Str("Table"),
     Variant |-> Str("Variant"), Unknown |-> Str("Unknown")]

PartitionSourceType ==
    [Query |-> Str("query"), M |-> Str("m"),
     Calculated |-> Str("calculated"), None |-> Str("none")]

DataView == [Full |-> Str("full"), Sample |-> Str("sample")]

RelationshipCardinality ==
    [OneToOne |-> Str("1:1"), OneToMany |-> Str("1:*"), ManyToOne |-> Str("*:1")]

CrossFilteringBehavior ==
    [BothDirections |-> Str("bothDirections"),
     OneDirection |-> Str("oneDirection"), None |-> Str("none")]

\* new TomParserError(code, message, cause); new TypeError(), ...
\* every error is [name, code, cause]; a missing code or cause is Undefined
TomParserError(code, cause) ==
    [name |-> "TomParserError", code |-> Str(code), cause |-> cause]
NativeError(name, code) ==
    [name |-> name, code |-> code, cause |-> Undefined]
TypeError == NativeError("TypeError", Undefined)

FILE_NOT_FOUND == "FILE_NOT_FOUND"
INVALID_JSON == "INVALID_JSON"
MISSING_REQUIRED_FIELD == "MISSING_REQUIRED_FIELD"
UNKNOWN_DATA_TYPE == "UNKNOWN_DATA_TYPE"
MALFORMED_RELATIONSHIP == "MALFORMED_RELATIONSHIP"
INVALID_PARTITION == "INVALID_PARTITION"

-----------------------------------------------------------------------------
(* Enum mappers (parsers/bim-parser.js)                                    *)

\* String(v) as used by a computed property key: typeMap[v]
RECURSIVE ToPropertyKey(_)
RECURSIVE Join(_)
Join(a) ==
    IF Len(a) = 0 THEN ""
    ELSE (IF Nullish(Head(a)) THEN "" ELSE ToPropertyKey(Head(a)))
         \o (IF Len(a) = 1 THEN "" ELSE "," \o Join(Tail(a)))
ToPropertyKey(v) ==
    CASE v.t = "array" -> Join(v.c)
      [] v.t = "object" -> "[object Object]"
      [] v.t \in {"undefined", "null"} -> v.t
      [] OTHER -> v.s

\* the own properties of the typeMap object literal
typeMap ==
    [Int64 |-> DataType.Int64, Int32 |-> DataType.Int64,
     Double |-> DataType.Double, Single |-> DataType.Double,
     Boolean |-> DataType.Boolean, String |-> DataType.String,
     DateTime |-> DataType.DateTime, DateTimeOffset |-> DataType.DateTime,
     Decimal |-> DataType.Decimal, Binary |-> DataType.Binary,
     Table |-> DataType.Table, Variant |-> DataType.Variant]

\* typeMap is a plain object literal: a lookup that misses its own
\* properties continues on Object.prototype
ObjectPrototype ==
    {"constructor", "toString", "toLocaleString", "valueOf", "hasOwnProperty",
     "isPrototypeOf", "propertyIsEnumerable", "__proto__"}

\* typeMap[key], through the prototype chain
typeMapLookup(key) ==
    IF key \in DOMAIN typeMap THEN typeMap[key]
    ELSE IF key = "__proto__" THEN EmptyObj
    ELSE IF key \in ObjectPrototype THEN Fun(key)
    ELSE Undefined

mapDataType(dataType) ==
    IF ~Truthy(dataType) THEN DataType.Unknown
    ELSE Coalesce(typeMapLookup(ToPropertyKey(dataType)), DataType.Unknown)

\* faulty variant: the expression test placed before the type test
mapPartitionSourceTypeExpressionFirst(source) ==
    IF ~Truthy(source) THEN PartitionSourceType.None
    ELSE IF Truthy(Get(source, "expression")) THEN PartitionSourceType.Calculated
    ELSE IF Is(Get(source, "type"), "m") THEN PartitionSourceType.M
    ELSE IF Truthy(Get(source, "query")) THEN PartitionSourceType.Query
    ELSE PartitionSourceType.None

mapPartitionSourceType(source) ==
    IF ~Truthy(source) THEN PartitionSourceType.None
    ELSE IF Is(Get(source, "type"), "m") THEN PartitionSourceType.M
    ELSE IF Truthy(Get(source, "expression")) THEN PartitionSourceType.Calculated
    ELSE IF Truthy(Get(source, "query")) THEN PartitionSourceType.Query
    ELSE PartitionSourceType.None

\* faulty variant: the ("*", "1") test left out
mapCardinalityNoManyToOne(crossFilterDirection, fromCard, toCard) ==
    IF Is(fromCard, "1") /\ Is(toCard, "1") THEN RelationshipCardinality.OneToOne
    ELSE IF Is(fromCard, "1") /\ Is(toCard, "*") THEN RelationshipCardinality.OneToMany
    ELSE RelationshipCardinality.OneToMany

mapCardinality(crossFilterDirection, fromCard, toCard) ==
    IF Is(fromCard, "1") /\ Is(toCard, "1") THEN RelationshipCardinality.OneToOne
    ELSE IF Is(fromCard, "1") /\ Is(toCard, "*") THEN RelationshipCardinality.OneToMany
    ELSE IF Is(fromCard, "*") /\ Is(toCard, "1") THEN RelationshipCardinality.ManyToOne
    ELSE RelationshipCardinality.OneToMany

\* faulty variant: a direction that is not "Both" counts as one direction
mapCrossFilteringBehaviorOneByDefault(crossFilterDirection) ==
    IF Is(crossFilterDirection, "Both") THEN CrossFilteringBehavior.BothDirections
    ELSE CrossFilteringBehavior.OneDirection

mapCrossFilteringBehavior(crossFilterDirection) ==
    IF Is(crossFilterDirection, "Both") THEN CrossFilteringBehavior.BothDirections
    ELSE IF Is(crossFilterDirection, "OneDirection") THEN CrossFilteringBehavior.OneDirection
    ELSE CrossFilteringBehavior.None

-----------------------------------------------------------------------------
(* Encoding detector (parsers/bim-parser.js) and the Buffer methods it     *)
(* calls.  A buffer is a sequence of bytes 0..255, a string a sequence of  *)
(* UTF-16 code units 0..65535.                                             *)

RangeError == NativeError("RangeError", Str("ERR_INVALID_BUFFER_SIZE"))

\* a continuation byte of UTF-8 within [lo, hi]
InRange(b, i, lo, hi) == i <= Len(b) /\ b[i] >= lo /\ b[i] <= hi

\* the UTF-16 code units of code point cp
CodeUnits(cp) ==
    IF cp < 65536 THEN <<cp>>
    ELSE <<55296 + ((cp - 65536) \div 1024), 56320 + ((cp - 65536) % 1024)>>

\* buffer.toString('utf-8'): every maximal ill-formed subsequence becomes
\* one U+FFFD; a leading U+FEFF is kept
RECURSIVE Utf8DecodeFrom(_, _)
Utf8DecodeFrom(b, i) ==
    IF i > Len(b) THEN <<>>
    ELSE LET b0 == b[i]
             lo2 == IF b0 = 224 THEN 160 ELSE IF b0 = 240 THEN 144 ELSE 128
             hi2 == IF b0 = 237 THEN 159 ELSE IF b0 = 244 THEN 143 ELSE 191
         IN  IF b0 < 128 THEN <<b0>> \o Utf8DecodeFrom(b, i + 1)
             ELSE IF b0 >= 194 /\ b0 <= 223
             THEN IF InRange(b, i + 1, 128, 191)
                  THEN <<(b0 - 192) * 64 + (b[i + 1] - 128)>>
                       \o Utf8DecodeFrom(b, i + 2)
                  ELSE <<65533>> \o Utf8DecodeFrom(b, i + 1)
             ELSE IF b0 >= 224 /\ b0 <= 239
             THEN IF ~InRange(b, i + 1, lo2, hi2)
                  THEN <<65533>> \o Utf8DecodeFrom(b, i + 1)
                  ELSE IF ~InRange(b, i + 2, 128, 191)
                  THEN <<65533>> \o Utf8DecodeFrom(b, i + 2)
                  ELSE <<(b0 - 224) * 4096 + (b[i + 1] - 128) * 64 + (b[i + 2] - 128)>>
                       \o Utf8DecodeFrom(b, i + 3)
             ELSE IF b0 >= 240 /\ b0 <= 244
             THEN IF ~InRange(b, i + 1, lo2, hi2)
                  THEN <<65533>> \o Utf8DecodeFrom(b, i + 1)
                  ELSE IF ~InRange(b, i + 2, 128, 191)
                  THEN <<65533>> \o Utf8DecodeFrom(b, i + 2)
                  ELSE IF ~InRange(b, i + 3, 128, 191)
                  THEN <<65533>> \o Utf8DecodeFrom(b, i + 3)
                  ELSE CodeUnits((b0 - 240) * 262144 + (b[i + 1] - 128) * 4096
                                 + (b[i + 2] - 128) * 64 + (b[i + 3] - 128))
                       \o Utf8DecodeFrom(b, i + 4)
             ELSE <<65533>> \o Utf8DecodeFrom(b, i + 1)

toStringUtf8(b) == Utf8DecodeFrom(b, 1)

\* buffer.toString('utf16le'): pairs of bytes, low byte first; a trailing
\* odd byte is dropped
toStringUtf16le(b) == [i \in 1..(Len(b) \div 2) |-> b[2 * i - 1] + 256 * b[2 * i]]

\* buffer.swap16() throws ERR_INVALID_BUFFER_SIZE unless the length is even
swap16Throws(b) == Len(b) % 2 # 0
swap16(b) == [i \in 1..Len(b) |-> IF i % 2 = 1 THEN b[i + 1] ELSE b[i - 1]]

\* str.slice(1)
slice1(str) == IF Len(str) = 0 THEN <<>> ELSE Tail(str)

\* faulty variant: the big-endian branch decodes without swapping the byte pairs
detectAndDecodeBomNoSwap(buf) ==
    IF Len(buf) >= 3 /\ buf[1] = 239 /\ buf[2] = 187 /\ buf[3] = 191
    THEN Return(slice1(toStringUtf8(buf)))
    ELSE IF Len(buf) >= 2 /\ buf[1] = 255 /\ buf[2] = 254
    THEN Return(slice1(toStringUtf16le(buf)))
    ELSE IF Len(buf) >= 2 /\ buf[1] = 254 /\ buf[2] = 255
    THEN Return(slice1(toStringUtf16le(buf)))
    ELSE Return(toStringUtf8(buf))

detectAndDecodeBom(buf) ==
    IF Len(buf) >= 3 /\ buf[1] = 239 /\ buf[2] = 187 /\ buf[3] = 191
    THEN Return(slice1(toStringUtf8(buf)))
    ELSE IF Len(buf) >= 2 /\ buf[1] = 255 /\ buf[2] = 254
    THEN Return(slice1(toStringUtf16le(buf)))
    ELSE IF Len(buf) >= 2 /\ buf[1] = 254 /\ buf[2] = 255
    THEN IF swap16Throws(buf) THEN Throw(RangeError)
         ELSE Return(slice1(toStringUtf16le(swap16(buf))))
    ELSE IF Len(buf) >= 4 /\ buf[2] = 0 /\ buf[4] = 0
            /\ LET hasZeroAtEven == buf[1] # 0
               IN  hasZeroAtEven \/ (Len(buf) > 10 /\ buf[3] = 0 /\ buf[5] = 0)
    THEN Return(toStringUtf16le(buf))
    ELSE Return(toStringUtf8(buf))

-----------------------------------------------------------------------------
(* Entity normalizers (parsers/bim-parser.js)                              *)
(* Each normalizer F comes with FThrows: the inputs on which the code      *)
(* raises a TypeError (a property read on null, a method call on a value   *)
(* that lacks the method).  F is what the code returns otherwise.          *)

\* obj with property k set to v
With(obj, k, v) == Obj((k :> v) @@ obj.c)

\* annotationsJson.map(a => ({name: a.name ?? '', value: a.value ?? ''}))
parseAnnotationsThrows(annotationsJson) ==
    /\ IsArray(annotationsJson)
    /\ \E i \in 1..Len(annotationsJson.c) : Nullish(annotationsJson.c[i])

parseAnnotation(a) ==
    Obj([name |-> Coalesce(Get(a, "name"), Str("")),
         value |-> Coalesce(Get(a, "value"), Str(""))])

parseAnnotations(annotationsJson) ==
    IF ~IsArray(annotationsJson) THEN EmptyArr
    ELSE Arr(Map(annotationsJson.c, parseAnnotation))

\* faulty variant: a culture's annotations normalized whatever the option says
parseCultureAlwaysAnnotated(c, includeAnnotations) ==
    Obj([name |-> Get(c, "name"),
         annotations |-> parseAnnotations(Get(c, "annotations"))])

parseCulture(c, includeAnnotations) ==
    Obj([name |-> Get(c, "name"),
         annotations |-> IF includeAnnotations
                         THEN parseAnnotations(Get(c, "annotations"))
                         ELSE Undefined])

parseDataModelSchemaThrows(modelJson, includeAnnotations) ==
    LET cultures == Get(modelJson, "cultures")
        annotations == Get(modelJson, "annotations")
    IN  \/ /\ Truthy(cultures) /\ IsArray(cultures)
           /\ \E i \in 1..Len(cultures.c) :
                \/ Nullish(cultures.c[i])
                \/ /\ includeAnnotations
                   /\ parseAnnotationsThrows(Get(cultures.c[i], "annotations"))
        \/ /\ Truthy(annotations) /\ includeAnnotations
           /\ parseAnnotationsThrows(annotations)

parseDataModelSchema(modelJson, includeAnnotations) ==
    LET cultures == Get(modelJson, "cultures")
        annotations == Get(modelJson, "annotations")
        Culture(c) == parseCulture(c, includeAnnotations)
    IN  Obj([name |-> Coalesce(Get(modelJson, "name"), Str("Model")),
             compatibilityLevel |->
                 Coalesce(Get(modelJson, "compatibilityLevel"), Num("0")),
             cultures |-> IF Truthy(cultures) /\ IsArray(cultures)
                          THEN Arr(Map(cultures.c, Culture))
                          ELSE EmptyArr,
             annotations |-> IF Truthy(annotations) /\ includeAnnotations
                             THEN parseAnnotations(annotations)
                             ELSE EmptyArr])

\* the predicate of the three filters: !x.isHidden || includeHidden
\* (evaluated on an element that is neither null nor undefined)
\* faulty variant: only isHidden === true counts as hidden
KeptUnlessTrue(x, includeHidden) == Get(x, "isHidden") # True \/ includeHidden

Kept(x, includeHidden) == ~Truthy(Get(x, "isHidden")) \/ includeHidden

\* faulty variant: calculatedColumn.expression tried before expression
parseColumnCalculatedFirst(colJson) ==
    LET column0 == Obj([name |-> Coalesce(Get(colJson, "name"), Str("Column")),
                        dataType |-> mapDataType(Get(colJson, "dataType")),
                        isHidden |-> Get(colJson, "isHidden"),
                        description |-> Get(colJson, "description")])
        calc == Get(colJson, "calculatedColumn")
        calcExpr == IF Nullish(calc) THEN Undefined ELSE Get(calc, "expression")
        column1 == IF Truthy(calcExpr)
                   THEN With(column0, "expression", calcExpr)
                   ELSE IF Truthy(Get(colJson, "expression"))
                   THEN With(column0, "expression", Get(colJson, "expression"))
                   ELSE column0
        column2 == IF Truthy(Get(colJson, "formatString"))
                   THEN With(column1, "formatString", Get(colJson, "formatString"))
                   ELSE column1
    IN  IF Truthy(Get(colJson, "summarizeBy"))
        THEN With(column2, "summarization", Get(colJson, "summarizeBy"))
        ELSE column2

parseColumn(colJson) ==
    LET column0 == Obj([name |-> Coalesce(Get(colJson, "name"), Str("Column")),
                        dataType |-> mapDataType(Get(colJson, "dataType")),
                        isHidden |-> Get(colJson, "isHidden"),
                        description |-> Get(colJson, "description")])
        calc == Get(colJson, "calculatedColumn")
        \* colJson.calculatedColumn?.expression
        calcExpr == IF Nullish(calc) THEN Undefined ELSE Get(calc, "expression")
        column1 == IF Truthy(Get(colJson, "expression"))
                   THEN With(column0, "expression", Get(colJson, "expression"))
                   ELSE IF Truthy(calcExpr)
                   THEN With(column0, "expression", calcExpr)
                   ELSE column0
        column2 == IF Truthy(Get(colJson, "formatString"))
                   THEN With(column1, "formatString", Get(colJson, "formatString"))
                   ELSE column1
    IN  IF Truthy(Get(colJson, "summarizeBy"))
        THEN With(column2, "summarization", Get(colJson, "summarizeBy"))
        ELSE column2

parseColumnsThrows(columnsJson) ==
    /\ IsArray(columnsJson)
    /\ \E i \in 1..Len(columnsJson.c) : Nullish(columnsJson.c[i])

parseColumns(columnsJson, includeHidden) ==
    LET Keep(c) == Kept(c, includeHidden)
    IN  IF ~IsArray(columnsJson) THEN EmptyArr
        ELSE Arr(Map(Filter(columnsJson.c, Keep), parseColumn))

\* faulty variant: the raw dataView token copied without mapping
parsePartitionRawDataView(partitionJson) ==
    LET source == Get(partitionJson, "source")
        partition0 ==
            Obj([name |-> Coalesce(Get(partitionJson, "name"), Str("Partition")),
                 sourceType |-> mapPartitionSourceType(source),
                 description |-> Get(partitionJson, "description")])
        partition1 == IF Truthy(source) /\ Truthy(Get(source, "expression"))
                      THEN With(partition0, "expression", Get(source, "expression"))
                      ELSE partition0
        partition2 == IF Truthy(source) /\ Truthy(Get(source, "query"))
                      THEN With(partition1, "query", Get(source, "query"))
                      ELSE partition1
    IN  IF Truthy(source) /\ Truthy(Get(source, "dataView"))
        THEN With(partition2, "dataView", Get(source, "dataView"))
        ELSE partition2

parsePartition(partitionJson) ==
    LET source == Get(partitionJson, "source")
        partition0 ==
            Obj([name |-> Coalesce(Get(partitionJson, "name"), Str("Partition")),
                 sourceType |-> mapPartitionSourceType(source),
                 description |-> Get(partitionJson, "description")])
        partition1 == IF Truthy(source) /\ Truthy(Get(source, "expression"))
                      THEN With(partition0, "expression", Get(source, "expression"))
                      ELSE partition0
        partition2 == IF Truthy(source) /\ Truthy(Get(source, "query"))
                      THEN With(partition1, "query", Get(source, "query"))
                      ELSE partition1
    IN  IF Truthy(source) /\ Truthy(Get(source, "dataView"))
        THEN With(partition2, "dataView",
                  IF Is(Get(source, "dataView"), "Sample")
                  THEN DataView.Sample ELSE DataView.Full)
        ELSE partition2

parsePartitionsThrows(partitionsJson) ==
    /\ IsArray(partitionsJson)
    /\ \E i \in 1..Len(partitionsJson.c) : Nullish(partitionsJson.c[i])

\* faulty variant: a value that is no array handed through as it is
parsePartitionsUnguarded(partitionsJson) ==
    IF ~IsArray(partitionsJson) THEN partitionsJson
    ELSE Arr(Map(partitionsJson.c, parsePartition))

parsePartitions(partitionsJson) ==
    IF ~IsArray(partitionsJson) THEN EmptyArr
    ELSE Arr(Map(partitionsJson.c, parsePartition))

parseMeasure(measureJson) ==
    Obj([name |-> Coalesce(Get(measureJson, "name"), Str("Measure")),
         expression |-> Coalesce(Get(measureJson, "expression"), Str("")),
         formatString |-> Get(measureJson, "formatString"),
         displayFolder |-> Get(measureJson, "displayFolder"),
         isHidden |-> Get(measureJson, "isHidden"),
         description |-> Get(measureJson, "description")])

parseMeasuresThrows(measuresJson) ==
    /\ IsArray(measuresJson)
    /\ \E i \in 1..Len(measuresJson.c) : Nullish(measuresJson.c[i])

\* faulty variant: the hidden filter left out for measures
parseMeasuresUnfiltered(measuresJson, includeHidden) ==
    IF ~IsArray(measuresJson) THEN EmptyArr
    ELSE Arr(Map(measuresJson.c, parseMeasure))

parseMeasures(measuresJson, includeHidden) ==
    LET Keep(m) == Kept(m, includeHidden)
    IN  IF ~IsArray(measuresJson) THEN EmptyArr
        ELSE Arr(Map(Filter(measuresJson.c, Keep), parseMeasure))

parseTableThrows(tableJson) ==
    \/ parseColumnsThrows(Coalesce(Get(tableJson, "columns"), EmptyArr))
    \/ parsePartitionsThrows(Coalesce(Get(tableJson, "partitions"), EmptyArr))
    \/ parseMeasuresThrows(Coalesce(Get(tableJson, "measures"), EmptyArr))

parseTable(tableJson, includeHidden) ==
    Obj([name |-> Coalesce(Get(tableJson, "name"), Str("Table")),
         description |-> Get(tableJson, "description"),
         isHidden |-> Get(tableJson, "isHidden"),
         columns |-> parseColumns(Coalesce(Get(tableJson, "columns"), EmptyArr),
                                  includeHidden),
         partitions |-> parsePartitions(
                            Coalesce(Get(tableJson, "partitions"), EmptyArr)),
         measures |-> parseMeasures(Coalesce(Get(tableJson, "measures"), EmptyArr),
                                    includeHidden)])

\* the raw tables that parseTables hands to parseTable
VisitedTables(tablesJson, includeHidden) ==
    LET Keep(t) == Kept(t, includeHidden)
    IN  IF ~IsArray(tablesJson) THEN <<>> ELSE Filter(tablesJson.c, Keep)

\* faulty variant: map before filter, so that hidden tables are normalized too
parseTablesThrowsMapFirst(tablesJson, includeHidden) ==
    /\ IsArray(tablesJson)
    /\ \/ \E i \in 1..Len(tablesJson.c) : Nullish(tablesJson.c[i])
       \/ \E i \in 1..Len(tablesJson.c) : parseTableThrows(tablesJson.c[i])

\* filter runs over the whole array before map starts
parseTablesThrows(tablesJson, includeHidden) ==
    /\ IsArray(tablesJson)
    /\ \/ \E i \in 1..Len(tablesJson.c) : Nullish(tablesJson.c[i])
       \/ LET visited == VisitedTables(tablesJson, includeHidden)
          IN  \E i \in 1..Len(visited) : parseTableThrows(visited[i])

parseTables(tablesJson, includeHidden) ==
    LET Table(t) == parseTable(t, includeHidden)
    IN  Arr(Map(VisitedTables(tablesJson, includeHidden), Table))

\* String.prototype.toLowerCase, on the names that occur in the documents
\* of this model (names outside the table have no upper-case letter)
toLowerCase(x) ==
    CASE x = "Customer" -> "customer"
      [] x = "CUSTOMER" -> "customer"
      [] x = "Sales" -> "sales"
      [] x = "Table" -> "table"
      [] x = "Bad" -> "bad"
      [] x = "Broken" -> "broken"
      [] OTHER -> x

\* x.toLowerCase() exists on strings only
IsString(v) == v.t = "string"

\* new Map(tables.map(t => [t.name.toLowerCase(), t])): later entries
\* overwrite earlier ones
tableMap(tables) ==
    LET keys == {toLowerCase(tables[i].c["name"].s) : i \in 1..Len(tables)}
        Last(k) == CHOOSE i \in 1..Len(tables) :
                     /\ toLowerCase(tables[i].c["name"].s) = k
                     /\ \A j \in (i + 1)..Len(tables) :
                          toLowerCase(tables[j].c["name"].s) # k
    IN  [k \in keys |-> tables[Last(k)]]

\* the lookups tableMap.get(...) of parseRelationship are computed and
\* dropped: the record is built from relJson alone
parseRelationship(relJson) ==
    Obj([name |-> Get(relJson, "name"),
         fromTable |-> Coalesce(Get(relJson, "fromTable"), Str("")),
         toTable |-> Coalesce(Get(relJson, "toTable"), Str("")),
         fromColumn |-> Coalesce(Get(relJson, "fromColumn"), Str("")),
         toColumn |-> Coalesce(Get(relJson, "toColumn"), Str("")),
         cardinality |-> mapCardinality(Get(relJson, "crossFilterDirection"),
                                        Get(relJson, "fromCardinality"),
                                        Get(relJson, "toCardinality")),
         crossFilteringBehavior |->
             mapCrossFilteringBehavior(Get(relJson, "crossFilterDirection")),
         isActive |-> Coalesce(Get(relJson, "isActive"), True),
         isReferentialIntegrityEnforced |->
             Get(relJson, "isReferentialIntegrityEnforced")])

parseRelationshipThrows(relJson) ==
    \/ Nullish(relJson)
    \/ ~IsString(Coalesce(Get(relJson, "fromTable"), Str("")))
    \/ ~IsString(Coalesce(Get(relJson, "toTable"), Str("")))

\* tables is the list parseTables returned
parseRelationshipsThrows(relationshipsJson, tables) ==
    /\ IsArray(relationshipsJson)
    /\ \/ \E i \in 1..Len(tables.c) : ~IsString(tables.c[i].c["name"])
       \/ \E i \in 1..Len(relationshipsJson.c) :
            parseRelationshipThrows(relationshipsJson.c[i])

parseRelationships(relationshipsJson, tables) ==
    IF ~IsArray(relationshipsJson) THEN EmptyArr
    ELSE Arr(Map(relationshipsJson.c, parseRelationship))

-----------------------------------------------------------------------------
(* Model assembler                                                         *)

\* options?.k ?? true
Option(opts, k) ==
    Truthy(Coalesce(IF Nullish(opts) THEN Undefined ELSE Get(opts, k), True))

\* the document has a `model` property
HasModel(doc) == doc.t = "object" /\ "model" \in DOMAIN doc.c

parseBimJson(doc, opts) ==
    LET includeAnnotations == Option(opts, "includeAnnotations")
        includeHidden == Option(opts, "includeHiddenObjects")
    IN  IF Nullish(doc) THEN Throw(TypeError)
        ELSE IF ~Truthy(Get(doc, "model"))
        THEN Throw(TomParserError(MISSING_REQUIRED_FIELD, Undefined))
        ELSE
        LET modelJson == Get(doc, "model")
            tablesJson == Coalesce(Get(modelJson, "tables"), EmptyArr)
            relationshipsJson ==
                Coalesce(Get(modelJson, "relationships"), EmptyArr)
        IN  IF parseDataModelSchemaThrows(modelJson, includeAnnotations)
            THEN Throw(TypeError)
            ELSE IF parseTablesThrows(tablesJson, includeHidden)
            THEN Throw(TypeError)
            ELSE
            LET tables == parseTables(tablesJson, includeHidden)
            IN  IF parseRelationshipsThrows(relationshipsJson, tables)
                THEN Throw(TypeError)
                ELSE Return(Obj(
                    [model |-> parseDataModelSchema(modelJson, includeAnnotations),
                     tables |-> tables,
                     relationships |->
                         parseRelationships(relationshipsJson, tables)]))

-----------------------------------------------------------------------------
(* JSON.parse, as parseBimFile uses it: from a string (UTF-16 code units)  *)
(* to a value, or a SyntaxError.  The grammar is JSON's, without escape    *)
(* sequences in strings and without fractions and exponents in numbers:    *)
(* no document text of this model holds one.                               *)

SyntaxError == NativeError("SyntaxError", Undefined)

\* the printable ASCII characters, code units 32..126; the quote, the
\* backslash and the grave accent never reach Chr and are left as "?"
Ascii ==
    <<
      " ", "!", "?", "#", "$", "%", "&", "'", "(", ")", "*", "+",
      ",", "-", ".", "/", "0", "1", "2", "3", "4", "5", "6", "7",
      "8", "9", ":", ";", "<", "=", ">", "?", "@", "A", "B", "C",
      "D", "E", "F", "G", "H", "I", "J", "K", "L", "M", "N", "O",
      "P", "Q", "R", "S", "T", "U", "V", "W", "X", "Y", "Z", "[",
      "?", "]", "^", "_", "?", "a", "b", "c", "d", "e", "f", "g",
      "h", "i", "j", "k", "l", "m", "n", "o", "p", "q", "r", "s",
      "t", "u", "v", "w", "x", "y", "z", "{", "|", "}", "~"
    >>
Chr(u) == IF u >= 32 /\ u <= 126 THEN Ascii[u - 31] ELSE "?"

Ok(v, next) == [ok |-> TRUE, val |-> v, next |-> next]
Fail == [ok |-> FALSE, val |-> Undefined, next |-> 0]

IsWs(u) == u \in {32, 9, 10, 13}
IsDigit(u) == u >= 48 /\ u <= 57

\* the first position at or after i that holds no white space
RECURSIVE SkipWs(_, _)
SkipWs(str, i) ==
    IF i <= Len(str) /\ IsWs(str[i]) THEN SkipWs(str, i + 1) ELSE i

\* str holds the code units lit at position i
Matches(str, i, lit) ==
    /\ i + Len(lit) - 1 <= Len(str)
    /\ \A k \in 1..Len(lit) : str[i + k - 1] = lit[k]

\* the characters of a string literal whose opening quote precedes i
RECURSIVE ParseString(_, _, _)
ParseString(str, i, acc) ==
    IF i > Len(str) THEN Fail
    ELSE IF str[i] = 34 THEN Ok(Str(acc), i + 1)
    ELSE IF str[i] < 32 \/ str[i] = 92 THEN Fail
    ELSE ParseString(str, i + 1, acc \o Chr(str[i]))

\* the digits of an integer starting at i
RECURSIVE ParseDigits(_, _, _)
ParseDigits(str, i, acc) ==
    IF i <= Len(str) /\ IsDigit(str[i])
    THEN ParseDigits(str, i + 1, acc \o Chr(str[i]))
    ELSE Ok(Num(acc), i)

ParseNumber(str, i) ==
    LET neg == str[i] = 45
        j == IF neg THEN i + 1 ELSE i
        sign == IF neg THEN "-" ELSE ""
    IN  IF j > Len(str) \/ ~IsDigit(str[j]) THEN Fail
        ELSE IF str[j] = 48 THEN Ok(Num(IF neg THEN "-0" ELSE "0"), j + 1)
        ELSE ParseDigits(str, j, sign)

RECURSIVE ParseValue(_, _)
RECURSIVE ParseElements(_, _, _, _)
RECURSIVE ParseMembers(_, _, _, _)

\* the elements of an array; i follows '[' or ',' and white space
ParseElements(str, i, acc, first) ==
    IF i > Len(str) THEN Fail
    ELSE IF first /\ str[i] = 93 THEN Ok(Arr(acc), i + 1)
    ELSE LET r == ParseValue(str, i)
             j == SkipWs(str, r.next)
         IN  IF ~r.ok \/ j > Len(str) THEN Fail
             ELSE IF str[j] = 44
             THEN ParseElements(str, SkipWs(str, j + 1), Append(acc, r.val), FALSE)
             ELSE IF str[j] = 93 THEN Ok(Arr(Append(acc, r.val)), j + 1)
             ELSE Fail

\* the members of an object; i follows '{' or ',' and white space; a
\* repeated key keeps its last value
ParseMembers(str, i, acc, first) ==
    IF i > Len(str) THEN Fail
    ELSE IF first /\ str[i] = 125 THEN Ok(Obj(acc), i + 1)
    ELSE IF str[i] # 34 THEN Fail
    ELSE LET key == ParseString(str, i + 1, "")
             colon == SkipWs(str, key.next)
         IN  IF ~key.ok \/ colon > Len(str) \/ str[colon] # 58 THEN Fail
             ELSE LET r == ParseValue(str, SkipWs(str, colon + 1))
                      j == SkipWs(str, r.next)
                      members == (key.val.s :> r.val) @@ acc
                  IN  IF ~r.ok \/ j > Len(str) THEN Fail
                      ELSE IF str[j] = 44
                      THEN ParseMembers(str, SkipWs(str, j + 1), members, FALSE)
                      ELSE IF str[j] = 125 THEN Ok(Obj(members), j + 1)
                      ELSE Fail

\* a value starting at i, which holds no white space
ParseValue(str, i) ==
    IF i > Len(str) THEN Fail
    ELSE IF str[i] = 123
    THEN ParseMembers(str, SkipWs(str, i + 1), [k \in {} |-> Undefined], TRUE)
    ELSE IF str[i] = 91 THEN ParseElements(str, SkipWs(str, i + 1), <<>>, TRUE)
    ELSE IF str[i] = 34 THEN ParseString(str, i + 1, "")
    ELSE IF str[i] = 45 \/ IsDigit(str[i]) THEN ParseNumber(str, i)
    ELSE IF Matches(str, i, <<110, 117, 108, 108>>) THEN Ok(Null, i + 4)
    ELSE IF Matches(str, i, <<116, 114, 117, 101>>) THEN Ok(True, i + 4)
    ELSE IF Matches(str, i, <<102, 97, 108, 115, 101>>) THEN Ok(False, i + 5)
    ELSE Fail

\* JSON.parse(content)
JSONparse(content) ==
    LET r == ParseValue(content, SkipWs(content, 1))
    IN  IF r.ok /\ SkipWs(content, r.next) = Len(content) + 1
        THEN Return(r.val)
        ELSE Throw(SyntaxError)

-----------------------------------------------------------------------------
(* Input documents of SpecJson                                             *)

MaxTables == 2

\* all sequences over S of length at most n
SeqsUpTo(S, n) == UNION {[1..k -> S] : k \in 0..n}

VisibleColumn == Obj([name |-> Str("Key"), dataType |-> Str("Int64")])
HiddenColumn ==
    Obj([name |-> Str("Secret"), dataType |-> Str("String"), isHidden |-> True])
VisibleMeasure ==
    Obj([name |-> Str("Total"), expression |-> Str("SUM(x)"), isHidden |-> False])
HiddenMeasure == Obj([name |-> Str("Internal"), isHidden |-> Num("1")])
QueryPartition ==
    Obj([name |-> Str("P1"), source |-> Obj([query |-> Str("SELECT 1")])])
MPartition ==
    Obj([name |-> Str("P2"),
         source |-> Obj([type |-> Str("m"), expression |-> Str("let")])])

PlainTable ==
    Obj([name |-> Str("Customer"), columns |-> Arr(<<VisibleColumn>>),
         partitions |-> Arr(<<QueryPartition>>),
         measures |-> Arr(<<VisibleMeasure>>)])
HiddenTable ==
    Obj([name |-> Str("Sales"), isHidden |-> True,
         columns |-> Arr(<<HiddenColumn, VisibleColumn>>),
         partitions |-> Arr(<<QueryPartition, MPartition>>),
         measures |-> Arr(<<HiddenMeasure>>)])
MixedTable ==
    Obj([name |-> Str("customer"), isHidden |-> False,
         columns |-> Arr(<<HiddenColumn, VisibleColumn>>),
         partitions |-> Arr(<<MPartition, QueryPartition>>),
         measures |-> Arr(<<HiddenMeasure, VisibleMeasure>>)])
HiddenMalformedTable ==
    Obj([name |-> Str("Bad"), isHidden |-> Str("yes"),
         columns |-> Arr(<<Null>>), partitions |-> Arr(<<Null>>),
         measures |-> Arr(<<Null>>)])
MalformedTable == Obj([name |-> Str("Broken"), columns |-> Arr(<<Null>>)])
LooseTable ==
    Obj([isHidden |-> Num("0"), columns |-> Str("none"),
         partitions |-> EmptyObj, measures |-> Null])
NumberNamedTable == Obj([name |-> Num("5")])

RawTables ==
    {PlainTable, HiddenTable, MixedTable, HiddenMalformedTable, MalformedTable,
     LooseTable, NumberNamedTable, Null, Num("7")}

Rel1 ==
    Obj([name |-> Str("R1"), fromTable |-> Str("customer"),
         fromColumn |-> Str("Key"), toTable |-> Str("Sales"),
         toColumn |-> Str("Key"), fromCardinality |-> Str("1"),
         toCardinality |-> Str("*"), crossFilterDirection |-> Str("OneDirection")])
DanglingRel == Obj([fromTable |-> Str("Nowhere")])

RawRelationships ==
    {Undefined, Arr(<<Rel1>>), Arr(<<DanglingRel, Rel1>>), Arr(<<Null>>), Str("none"),
     Arr(<<Obj([fromTable |-> Num("3")])>>)}

RawSchemas ==
    {EmptyObj,
     Obj([name |-> Str("S"), compatibilityLevel |-> Num("1500"),
          cultures |-> Arr(<<Obj([name |-> Str("en-US"),
                                  annotations |-> Arr(<<Obj([name |-> Str("a")])>>)])>>),
          annotations |-> Arr(<<Obj([name |-> Str("k"), value |-> Str("v")])>>)])}

\* field k of obj set to v, unless v is undefined (then k stays absent)
WithField(obj, k, v) == IF v = Undefined THEN obj ELSE With(obj, k, v)

\* the models with a well-formed schema part
TableModels ==
    {WithField(With(schema, "tables", Arr(ts)), "relationships", rels) :
        schema \in RawSchemas, ts \in SeqsUpTo(RawTables, MaxTables),
        rels \in RawRelationships}

\* values of `model` of any other shape
OddModels ==
    {Null, False, Num("0"), Str(""), True, Num("1"), Str("model"), EmptyArr,
     Arr(<<Num("1")>>),
     Obj([name |-> Null, tables |-> Str("none"), relationships |-> EmptyObj]),
     Obj([cultures |-> Arr(<<Null>>)]),
     Obj([cultures |-> Arr(<<Obj([annotations |-> Arr(<<Null>>)])>>)]),
     Obj([annotations |-> Arr(<<Null>>)]),
     Obj([annotations |-> Str("none"), cultures |-> Str("none")])}

\* models that hold the schema part only
MinimalModel == Obj([name |-> Str("Test"), compatibilityLevel |-> Num("1500")])
AnnotatedModel ==
    Obj([name |-> Str("Annotated"),
         cultures |->
             Arr(<<Obj([name |-> Str("fr-FR")]),
                   Obj([name |-> Str("de-DE"), annotations |-> Str("none")]),
                   Obj([name |-> Str("en-US"),
                        annotations |->
                            Arr(<<EmptyObj,
                                  Obj([name |-> Null, value |-> Num("0")])>>)])>>),
         annotations |->
             Arr(<<EmptyObj, Obj([name |-> Str("k")]),
                   Obj([name |-> Null, value |-> Str("v")])>>)])
SchemaModels ==
    {MinimalModel, AnnotatedModel,
     Obj([annotations |-> EmptyObj, cultures |-> EmptyObj]),
     Obj([annotations |-> Null, cultures |-> Null, tables |-> Null,
          relationships |-> Null]),
     Obj([cultures |-> Arr(<<Obj([name |-> Str("en-US"), annotations |-> Arr(<<Null>>)]),
                             Null>>)])}

\* documents without a `model` property
NoModelDocs ==
    {EmptyObj, Obj([tables |-> EmptyArr]), Obj([name |-> Str("Test")]),
     EmptyArr, Arr(<<Obj([model |-> EmptyObj])>>), Str("model"), Str(""),
     Num("0"), Num("1"), True, False, Null}

Docs ==
    NoModelDocs
    \cup {Obj([model |-> m]) : m \in TableModels \cup OddModels \cup SchemaModels}

ParseOptions ==
    {Undefined, EmptyObj,
     Obj([includeHiddenObjects |-> False]), Obj([includeHiddenObjects |-> True]),
     Obj([includeAnnotations |-> False]), Obj([includeAnnotations |-> True]),
     Obj([includeAnnotations |-> False, includeHiddenObjects |-> False])}

-----------------------------------------------------------------------------
(* SpecJson: parseBimJson applied to a document                            *)

InitJson ==
    /\ json \in Docs
    /\ options = Undefined
    /\ result = Pending
    /\ InitMapIdle
    /\ InitDecodeIdle
    /\ InitFileIdle
    /\ InitRepeatIdle

\* a caller invokes parseBimJson(json, opts)
ParseBimJson ==
    /\ result = Pending
    /\ \E opts \in ParseOptions :
         /\ options' = opts
         /\ result' = parseBimJson(json, opts)
    /\ UNCHANGED <<json, raw, mapper, mapped, text, encoding, buffer, decoded, calls, invocations>>

NextJson == ParseBimJson

SpecJson == InitJson /\ [][NextJson]_vars

-----------------------------------------------------------------------------
(* Claims about parseBimJson (SpecJson)                                    *)

Returned == result.kind = "return"
Threw == result.kind = "throw"
IncludeHidden == Option(options, "includeHiddenObjects")

\* the children of an array value, the empty list for any other value
Items(v) == IF IsArray(v) THEN v.c ELSE <<>>

\* the raw `model.tables` list of the input document
RawTableList == Items(Get(Get(json, "model"), "tables"))

ThrewMissingRequiredField ==
    /\ Threw
    /\ result.error.name = "TomParserError"
    /\ result.error.code = Str(MISSING_REQUIRED_FIELD)

\* C1: every input value without a `model` property makes parseBimJson
\* throw a TomParserError with code MISSING_REQUIRED_FIELD.
C1_MissingModelFails ==
    (result # Pending /\ ~HasModel(json)) => ThrewMissingRequiredField

\* C2: every document that has a `model` property, whatever lies beneath
\* it, makes parseBimJson return a TabularModel {model, tables,
\* relationships}; it never throws.
C2_ModelPresentNeverThrows ==
    (result # Pending /\ HasModel(json)) =>
        /\ Returned
        /\ DOMAIN result.value.c = {"model", "tables", "relationships"}

\* the document with its hidden tables deleted from model.tables
HiddenIsTruthy(x) == ~Nullish(x) /\ Truthy(Get(x, "isHidden"))
NotHidden(x) == ~HiddenIsTruthy(x)
WithoutHiddenTables(doc) ==
    With(doc, "model",
         With(Get(doc, "model"), "tables", Arr(SelectSeq(RawTableList, NotHidden))))

\* C6: with includeHiddenObjects false a table whose raw isHidden is truthy
\* is absent from the output and its children are not visited: the call
\* completes exactly as it does on the document without the hidden tables.
\* With the option true or omitted every raw table is present, in order,
\* with its isHidden value, and so is every column of a hidden table.
C6_HiddenTables ==
    (result # Pending /\ HasModel(json) /\ Truthy(Get(json, "model"))
       /\ IsArray(Get(Get(json, "model"), "tables"))) =>
        /\ ~IncludeHidden =>
             /\ result = parseBimJson(WithoutHiddenTables(json), options)
             /\ Returned =>
                  /\ Len(result.value.c["tables"].c)
                       = Len(SelectSeq(RawTableList, NotHidden))
                  /\ \A i \in 1..Len(result.value.c["tables"].c) :
                       ~Truthy(result.value.c["tables"].c[i].c["isHidden"])
        /\ (IncludeHidden /\ Returned) =>
             /\ Len(result.value.c["tables"].c) = Len(RawTableList)
             /\ \A i \in 1..Len(RawTableList) :
                  LET rawT == RawTableList[i]
                      outT == result.value.c["tables"].c[i]
                      rawCols == Items(Get(rawT, "columns"))
                  IN  /\ outT.c["isHidden"] = Get(rawT, "isHidden")
                      /\ HiddenIsTruthy(rawT) =>
                           /\ Len(outT.c["columns"].c) = Len(rawCols)
                           /\ \A j \in 1..Len(rawCols) :
                                outT.c["columns"].c[j].c["isHidden"]
                                    = Get(rawCols[j], "isHidden")

\* C6 witness: a call with includeHiddenObjects false has returned on a
\* document holding a hidden table whose children are all malformed.
C6_Witness ==
    /\ Returned /\ ~IncludeHidden
    /\ \E i \in 1..Len(RawTableList) : RawTableList[i] = HiddenMalformedTable
    /\ \E i \in 1..Len(RawTableList) : RawTableList[i] = PlainTable
    /\ Len(result.value.c["tables"].c) = 1

\* C7: with includeHiddenObjects false no table, column or measure of a
\* result has a truthy isHidden; for either value of the option every
\* retained table has as many partitions as its raw `partitions` array and
\* the result has as many relationships as the raw `relationships` array.
C7_HiddenFiltering ==
    Returned =>
        LET outTables == result.value.c["tables"].c
            KeptRaw(t) == NotHidden(t) \/ IncludeHidden
            retained == SelectSeq(RawTableList, KeptRaw)
            rawRels == Get(Get(json, "model"), "relationships")
        IN  /\ ~IncludeHidden =>
                 \A i \in 1..Len(outTables) :
                    /\ ~Truthy(outTables[i].c["isHidden"])
                    /\ \A j \in 1..Len(outTables[i].c["columns"].c) :
                         ~Truthy(outTables[i].c["columns"].c[j].c["isHidden"])
                    /\ \A j \in 1..Len(outTables[i].c["measures"].c) :
                         ~Truthy(outTables[i].c["measures"].c[j].c["isHidden"])
            /\ Len(outTables) = Len(retained)
            /\ \A i \in 1..Len(retained) :
                 IsArray(Get(retained[i], "partitions")) =>
                    Len(outTables[i].c["partitions"].c)
                        = Len(Get(retained[i], "partitions").c)
            /\ IsArray(rawRels) =>
                 Len(result.value.c["relationships"].c) = Len(rawRels.c)

\* C7 witness: a call with includeHiddenObjects false has returned a table
\* that lost a hidden column and a hidden measure and kept its two
\* partitions, together with two relationships.
C7_Witness ==
    /\ Returned /\ ~IncludeHidden
    /\ Len(RawTableList) >= 1 /\ RawTableList[1] = MixedTable
    /\ Len(result.value.c["tables"].c[1].c["columns"].c) = 1
    /\ Len(result.value.c["tables"].c[1].c["measures"].c) = 1
    /\ Len(result.value.c["tables"].c[1].c["partitions"].c) = 2
    /\ Len(result.value.c["relationships"].c) = 2

\* the raw `model.relationships` list of the input document
RawRelationshipList == Items(Get(Get(json, "model"), "relationships"))

\* a raw relationship whose four references are strings or absent
ReferencesAreStrings(rel) ==
    /\ rel.t = "object"
    /\ \A k \in {"fromTable", "toTable", "fromColumn", "toColumn"} :
         Nullish(Get(rel, k)) \/ IsString(Get(rel, k))

\* the schema and the tables of the input document normalize without error
SchemaAndTablesNormalize ==
    LET modelJson == Get(json, "model")
    IN  /\ Truthy(modelJson)
        /\ ~parseDataModelSchemaThrows(modelJson, Option(options, "includeAnnotations"))
        /\ ~parseTablesThrows(Coalesce(Get(modelJson, "tables"), EmptyArr),
                              IncludeHidden)

\* C13: every element of the raw relationships array gives exactly one
\* relationship record, in input order, whose fromTable, toTable, fromColumn
\* and toColumn are the raw strings (the empty string when absent), whether
\* or not a table of that name is in the result; no error is raised.
C13_RelationshipsVerbatim ==
    (/\ result # Pending
     /\ SchemaAndTablesNormalize
     /\ IsArray(Get(Get(json, "model"), "relationships"))
     /\ \A i \in 1..Len(RawRelationshipList) :
          ReferencesAreStrings(RawRelationshipList[i])) =>
        /\ Returned
        /\ Len(result.value.c["relationships"].c) = Len(RawRelationshipList)
        /\ \A i \in 1..Len(RawRelationshipList) :
             \A k \in {"fromTable", "toTable", "fromColumn", "toColumn"} :
                result.value.c["relationships"].c[i].c[k]
                    = Coalesce(Get(RawRelationshipList[i], k), Str(""))

\* the empty list where the raw field is no array
EmptyUnlessArray(out, rawField) == IsArray(out) /\ (~IsArray(rawField) => out = EmptyArr)

\* the raw tables that reach the result
RetainedTables ==
    LET KeptRaw(t) == NotHidden(t) \/ IncludeHidden
    IN  SelectSeq(RawTableList, KeptRaw)

\* C14: in every result of parseBimJson tables, relationships, the schema's
\* cultures and annotations and each table's columns, partitions and
\* measures are lists, and the empty list whenever the raw field is absent,
\* null or no array; the document model: {name, compatibilityLevel} gives
\* four empty lists.
C14_ListsAreLists ==
    Returned =>
        LET modelJson == Get(json, "model")
            schema == result.value.c["model"]
            outTables == result.value.c["tables"]
        IN  /\ EmptyUnlessArray(outTables, Get(modelJson, "tables"))
            /\ EmptyUnlessArray(result.value.c["relationships"],
                                Get(modelJson, "relationships"))
            /\ EmptyUnlessArray(schema.c["cultures"], Get(modelJson, "cultures"))
            /\ EmptyUnlessArray(schema.c["annotations"], Get(modelJson, "annotations"))
            /\ Len(outTables.c) = Len(RetainedTables)
            /\ \A i \in 1..Len(outTables.c) :
                 \A k \in {"columns", "partitions", "measures"} :
                    EmptyUnlessArray(outTables.c[i].c[k], Get(RetainedTables[i], k))
            /\ json = Obj([model |-> MinimalModel]) =>
                 /\ outTables = EmptyArr
                 /\ result.value.c["relationships"] = EmptyArr
                 /\ schema.c["cultures"] = EmptyArr
                 /\ schema.c["annotations"] = EmptyArr

\* C14 witness: a call has returned on a document whose single table has a
\* string for columns, an object for partitions and null for measures.
C14_Witness ==
    /\ Returned
    /\ RawTableList = <<LooseTable>>
    /\ result.value.c["tables"].c[1].c["columns"] = EmptyArr
    /\ result.value.c["tables"].c[1].c["partitions"] = EmptyArr
    /\ result.value.c["tables"].c[1].c["measures"] = EmptyArr

IncludeAnnotations == Option(options, "includeAnnotations")

\* obj without its property k
Without(obj, k) ==
    IF obj.t = "object" THEN Obj([x \in DOMAIN obj.c \ {k} |-> obj.c[x]]) ELSE obj

\* the document with every annotations property of the schema and of its
\* cultures deleted
WithoutAnnotations(doc) ==
    LET modelJson == Get(doc, "model")
        cultures == Get(modelJson, "cultures")
        bare == Without(modelJson, "annotations")
    IN  With(doc, "model",
             IF IsArray(cultures)
             THEN With(bare, "cultures",
                       Arr([i \in 1..Len(cultures.c) |->
                               Without(cultures.c[i], "annotations")]))
             ELSE bare)

\* a raw annotations value as a list of {name, value}, each defaulting to ''
ListedAnnotations(rawAnnotations) ==
    IF ~IsArray(rawAnnotations) THEN EmptyArr
    ELSE Arr([i \in 1..Len(rawAnnotations.c) |->
                Obj([name |-> IF Nullish(Get(rawAnnotations.c[i], "name"))
                              THEN Str("") ELSE Get(rawAnnotations.c[i], "name"),
                     value |-> IF Nullish(Get(rawAnnotations.c[i], "value"))
                               THEN Str("") ELSE Get(rawAnnotations.c[i], "value")])])

\* C16: with includeAnnotations false the schema's annotations are empty and
\* no culture has annotations, whatever the source holds: the call completes
\* as it does on the document without any annotations.  With the option
\* true or omitted the schema's annotations are the raw ones, name and
\* value defaulting to '', and every culture has an annotations list, empty
\* when its raw annotations are absent or no array.
C16_Annotations ==
    (result # Pending /\ HasModel(json) /\ Truthy(Get(json, "model"))) =>
        LET modelJson == Get(json, "model")
            rawCultures == Items(Get(modelJson, "cultures"))
        IN  /\ ~IncludeAnnotations =>
                 /\ result = parseBimJson(WithoutAnnotations(json), options)
                 /\ Returned =>
                      /\ result.value.c["model"].c["annotations"] = EmptyArr
                      /\ Len(result.value.c["model"].c["cultures"].c) = Len(rawCultures)
                      /\ \A i \in 1..Len(rawCultures) :
                           result.value.c["model"].c["cultures"].c[i].c["annotations"]
                               = Undefined
            /\ (IncludeAnnotations /\ Returned) =>
                 /\ result.value.c["model"].c["annotations"]
                      = ListedAnnotations(Get(modelJson, "annotations"))
                 /\ Len(result.value.c["model"].c["cultures"].c) = Len(rawCultures)
                 /\ \A i \in 1..Len(rawCultures) :
                      result.value.c["model"].c["cultures"].c[i].c["annotations"]
                          = ListedAnnotations(Get(rawCultures[i], "annotations"))

\* C16 witness: a call with includeAnnotations false has returned on the
\* document whose schema has three annotations and three cultures.
C16_Witness ==
    /\ Returned /\ ~IncludeAnnotations
    /\ json = Obj([model |-> AnnotatedModel])
    /\ result.value.c["model"].c["annotations"] = EmptyArr
    /\ Len(result.value.c["model"].c["cultures"].c) = 3

\* the options of the call, with includeHiddenObjects set to true
IncludingHidden(opts) ==
    With(IF Nullish(opts) THEN EmptyObj ELSE opts, "includeHiddenObjects", True)

\* an entity of a result whose isHidden is not truthy
Visible(entity) == ~Truthy(entity.c["isHidden"])

\* a TabularModel after deleting every table, column and measure whose
\* isHidden is truthy; the order and the fields of the others are kept
DeleteHidden(tabularModel) ==
    LET Shown(table) ==
            With(With(table, "columns",
                      Arr(SelectSeq(table.c["columns"].c, Visible))),
                 "measures", Arr(SelectSeq(table.c["measures"].c, Visible)))
        shownTables == SelectSeq(tabularModel.c["tables"].c, Visible)
    IN  With(tabularModel, "tables",
             Arr([i \in 1..Len(shownTables) |-> Shown(shownTables[i])]))

\* C21: on every document on which parseBimJson returns with
\* includeHiddenObjects false and with true, the former result is the
\* latter after deleting each table, column and measure whose isHidden is
\* truthy: the others keep their order and fields, and the schema, the
\* partitions of the retained tables and the relationships are the same.
C21_HiddenExclusionIsDeletion ==
    (Returned /\ ~IncludeHidden) =>
        LET full == parseBimJson(json, IncludingHidden(options))
        IN  full.kind = "return" =>
                /\ result.value = DeleteHidden(full.value)
                /\ result.value.c["model"] = full.value.c["model"]
                /\ result.value.c["relationships"] = full.value.c["relationships"]
                /\ LET shown == SelectSeq(full.value.c["tables"].c, Visible)
                   IN  /\ Len(result.value.c["tables"].c) = Len(shown)
                       /\ \A i \in 1..Len(shown) :
                            result.value.c["tables"].c[i].c["partitions"]
                                = shown[i].c["partitions"]

\* C21 witness: on a document with a hidden table followed by a table with
\* a hidden column and a hidden measure, the call that excludes hidden
\* objects has returned one table with one column and one measure, and the
\* call that includes them returns two tables.
C21_Witness ==
    /\ Returned /\ ~IncludeHidden
    /\ RawTableList = <<HiddenTable, MixedTable>>
    /\ Len(result.value.c["tables"].c) = 1
    /\ Len(result.value.c["tables"].c[1].c["columns"].c) = 1
    /\ Len(result.value.c["tables"].c[1].c["measures"].c) = 1
    /\ parseBimJson(json, IncludingHidden(options)).kind = "return"
    /\ Len(parseBimJson(json, IncludingHidden(options)).value.c["tables"].c) = 2

-----------------------------------------------------------------------------
(* SpecRepeat: parseBimJson called again and again                         *)
(* The module keeps nothing between calls: it declares no variable besides *)
(* its imports, and the functions write to their own locals and to the     *)
(* objects they create.  A call made after earlier calls therefore reads   *)
(* its two arguments only.                                                 *)

MaxCalls == 3

RepeatDocs ==
    {Null, EmptyObj,
     Obj([model |-> AnnotatedModel]),
     Obj([model |-> Obj([tables |-> Arr(<<HiddenTable, MixedTable>>),
                         relationships |-> Arr(<<Rel1>>)])]),
     Obj([model |-> Obj([tables |-> Arr(<<HiddenMalformedTable, PlainTable>>)])]),
     Obj([model |-> Obj([tables |-> Arr(<<NumberNamedTable>>)])])}

RepeatOptions ==
    {Undefined, Obj([includeHiddenObjects |-> False]),
     Obj([includeAnnotations |-> False])}

\* faulty variant: the options of the first call kept for the later calls
parseBimJsonKeepingOptions(doc, opts, earlier) ==
    parseBimJson(doc, IF Len(earlier) = 0 THEN opts ELSE earlier[1].options)

\* parseBimJson(doc, opts), called after the calls in earlier
parseBimJsonAfter(doc, opts, earlier) == parseBimJson(doc, opts)

InitRepeat ==
    /\ invocations = <<>>
    /\ InitJsonIdle /\ InitMapIdle /\ InitDecodeIdle /\ InitFileIdle

\* a caller invokes parseBimJson(doc, opts) once more
ParseBimJsonAgain ==
    /\ Len(invocations) < MaxCalls
    /\ \E doc \in RepeatDocs, opts \in RepeatOptions :
         invocations' =
             Append(invocations,
                    [json |-> doc, options |-> opts,
                     completion |-> parseBimJsonAfter(doc, opts, invocations)])
    /\ UNCHANGED <<json, options, result, raw, mapper, mapped,
                   text, encoding, buffer, decoded, calls>>

NextRepeat == ParseBimJsonAgain

SpecRepeat == InitRepeat /\ [][NextRepeat]_vars

-----------------------------------------------------------------------------
(* SpecMap: one normalizer applied to one raw node                         *)

RawDataTypes ==
    {Undefined, Null, Str(""), Num("0"), Num("5"), True, False, EmptyArr, EmptyObj,
     Arr(<<Str("Int64")>>),
     Str("Int64"), Str("Int32"), Str("Double"), Str("Single"), Str("Boolean"),
     Str("String"), Str("DateTime"), Str("DateTimeOffset"), Str("Decimal"),
     Str("Binary"), Str("Table"), Str("Variant"),
     Str("UnknownType"), Str("int64"), Str("Unknown"), Str("Date"),
     Str("constructor"), Str("toString"), Str("valueOf"), Str("hasOwnProperty"),
     Str("__proto__")}

RawCalculatedColumns ==
    {Undefined, Null, Str("x"), EmptyObj, Obj([expression |-> Str("")]),
     Obj([expression |-> Str("[B]*2")])}

\* columns with every data type, and columns with the optional fields
RawColumnNodes ==
    {WithField(Obj([name |-> Str("col")]), "dataType", d) : d \in RawDataTypes}
    \cup
    {WithField(WithField(WithField(WithField(
        Obj([name |-> Str("calc"), dataType |-> Str("Double")]),
        "expression", e), "calculatedColumn", cc), "formatString", f),
        "summarizeBy", sm) :
        e \in {Undefined, Null, Str(""), Str("[A]+1")},
        cc \in RawCalculatedColumns,
        f \in {Undefined, Str(""), Str("0.00"), Num("0")},
        sm \in {Undefined, Null, Str(""), Str("sum")}}

RawSources ==
    {Undefined, Null, Str(""), Str("m"), Num("0")} \cup
    {WithField(WithField(WithField(WithField(EmptyObj,
        "type", ty), "expression", e), "query", q), "dataView", dv) :
        ty \in {Undefined, Str("m"), Str("M"), Str("calculated")},
        e \in {Undefined, Null, Str(""), Str("let x")},
        q \in {Undefined, Str(""), Str("SELECT 1")},
        dv \in {Undefined, Null, Str(""), Str("Sample"), Str("Full"), Str("sample")}}

RawPartitionNodes ==
    {WithField(Obj([name |-> Str("p")]), "source", src) : src \in RawSources}

RawCardinalities ==
    {Undefined, Null, Str("1"), Str("*"), Str(""), Str("n"), Str("one"), Num("1")}

RawDirections ==
    {Undefined, Null, Str("Both"), Str("OneDirection"), Str("both"),
     Str("BothDirections"), Str("Single"), Str(""), True}

RawRelationshipNodes ==
    {WithField(WithField(WithField(
        Obj([name |-> Str("R"), fromTable |-> Str("Sales"), toTable |-> Str("Customer")]),
        "fromCardinality", f), "toCardinality", t), "crossFilterDirection", d) :
        f \in RawCardinalities, t \in RawCardinalities, d \in RawDirections}
    \cup {Obj([fromTable |-> Num("3"), fromCardinality |-> Str("1"),
                toCardinality |-> Str("1")])}

InitSpecMap ==
    /\ raw \in RawColumnNodes \cup RawPartitionNodes \cup RawRelationshipNodes
    /\ mapper = "none"
    /\ mapped = Undefined
    /\ InitJsonIdle
    /\ InitDecodeIdle
    /\ InitFileIdle
    /\ InitRepeatIdle

\* parseColumns reaches parseColumn(raw)
ParseColumn ==
    /\ mapper = "none"
    /\ raw \in RawColumnNodes
    /\ mapper' = "parseColumn"
    /\ mapped' = parseColumn(raw)
    /\ UNCHANGED <<raw, json, options, result, text, encoding, buffer, decoded, calls, invocations>>

\* parsePartitions reaches parsePartition(raw)
ParsePartition ==
    /\ mapper = "none"
    /\ raw \in RawPartitionNodes
    /\ mapper' = "parsePartition"
    /\ mapped' = parsePartition(raw)
    /\ UNCHANGED <<raw, json, options, result, text, encoding, buffer, decoded, calls, invocations>>

\* parseRelationships reaches parseRelationship(raw, tableMap): the record,
\* or the TypeError of toLowerCase on a table name that is no string
ParseRelationship ==
    /\ mapper = "none"
    /\ raw \in RawRelationshipNodes
    /\ mapper' = IF parseRelationshipThrows(raw)
                 THEN "TypeError" ELSE "parseRelationship"
    /\ mapped' = IF parseRelationshipThrows(raw)
                 THEN Undefined ELSE parseRelationship(raw)
    /\ UNCHANGED <<raw, json, options, result, text, encoding, buffer, decoded, calls, invocations>>

NextMap == ParseColumn \/ ParsePartition \/ ParseRelationship

SpecMap == InitSpecMap /\ [][NextMap]_vars

-----------------------------------------------------------------------------
(* Claims about the enum mappers (SpecMap)                                 *)

\* the mapping of data type tokens as the specification lists it
ListedDataType(d) ==
    IF ~IsString(d) THEN DataType.Unknown
    ELSE CASE d.s \in {"Int64", "Int32"} -> DataType.Int64
           [] d.s \in {"Double", "Single"} -> DataType.Double
           [] d.s \in {"DateTime", "DateTimeOffset"} -> DataType.DateTime
           [] d.s \in {"Boolean", "String", "Decimal", "Binary", "Table", "Variant"}
                -> Str(d.s)
           [] OTHER -> DataType.Unknown

DataTypeMembers == {DataType[k] : k \in DOMAIN DataType}

\* C5: a column's dataType is a member of the closed DataType enum: the
\* twelve listed tokens map as listed and every other raw value, absent
\* and the empty string included, gives Unknown.
C5_DataTypeTotal ==
    mapper = "parseColumn" =>
        /\ mapped.c["dataType"] \in DataTypeMembers
        /\ mapped.c["dataType"] = ListedDataType(Get(raw, "dataType"))

\* a property is present when it has a value other than null
Present(v) == ~Nullish(v)

\* the source type as the claim words it, with presence tests
SourceTypeByPresence(source) ==
    IF ~Present(source) THEN PartitionSourceType.None
    ELSE IF Is(Get(source, "type"), "m") THEN PartitionSourceType.M
    ELSE IF Present(Get(source, "expression")) THEN PartitionSourceType.Calculated
    ELSE IF Present(Get(source, "query")) THEN PartitionSourceType.Query
    ELSE PartitionSourceType.None

\* the source type with truthiness tests: the empty string counts as absent
SourceTypeByTruthiness(source) ==
    IF ~Truthy(source) THEN PartitionSourceType.None
    ELSE IF Is(Get(source, "type"), "m") THEN PartitionSourceType.M
    ELSE IF Get(source, "expression") \notin {Undefined, Null, Str("")}
    THEN PartitionSourceType.Calculated
    ELSE IF Get(source, "query") \notin {Undefined, Null, Str("")}
    THEN PartitionSourceType.Query
    ELSE PartitionSourceType.None

NonEmpty(v) == v \notin {Undefined, Null, Str("")}

\* field k of the entity is v
Carries(entity, k, v) == k \in DOMAIN entity.c /\ entity.c[k] = v

C20_PartitionSourceFields ==
    mapper = "parsePartition" =>
        LET source == Get(raw, "source")
            view == IF Get(source, "dataView") = Str("Sample")
                    THEN DataView.Sample ELSE DataView.Full
        IN  IF Nullish(source)
            THEN /\ DOMAIN mapped.c \cap {"expression", "query", "dataView"} = {}
                 /\ mapped.c["sourceType"] = PartitionSourceType.None
            ELSE /\ \A k \in {"expression", "query"} :
                      /\ k \in DOMAIN mapped.c =>
                           Truthy(Get(source, k)) /\ mapped.c[k] = Get(source, k)
                      /\ Truthy(Get(source, k)) => k \in DOMAIN mapped.c
                 /\ "dataView" \in DOMAIN mapped.c =>
                      Truthy(Get(source, "dataView")) /\ mapped.c["dataView"] = view
                 /\ Truthy(Get(source, "dataView")) => "dataView" \in DOMAIN mapped.c

\* C20 witness: a partition whose source has a query, an empty expression
\* and the dataView token "sample" has been normalized: it has the query,
\* no expression and dataView Full.
C20_Witness ==
    /\ mapper = "parsePartition"
    /\ Get(Get(raw, "source"), "expression") = Str("")
    /\ Get(Get(raw, "source"), "dataView") = Str("sample")
    /\ Carries(mapped, "query", Str("SELECT 1"))
    /\ "expression" \notin DOMAIN mapped.c
    /\ Carries(mapped, "dataView", DataView.Full)

\* the cardinality table as the specification lists it
ListedCardinality(fromCard, toCard) ==
    CASE fromCard = Str("1") /\ toCard = Str("1") -> RelationshipCardinality.OneToOne
      [] fromCard = Str("1") /\ toCard = Str("*") -> RelationshipCardinality.OneToMany
      [] fromCard = Str("*") /\ toCard = Str("1") -> RelationshipCardinality.ManyToOne
      [] OTHER -> RelationshipCardinality.OneToMany

\* C11: a relationship's cardinality is OneToOne for ("1","1"), OneToMany
\* for ("1","*"), ManyToOne for ("*","1") and OneToMany for every other pair
\* of raw fromCardinality and toCardinality, ("*","*"), a missing side and
\* unrecognized tokens included; it is the same for every value of
\* crossFilterDirection.
C11_Cardinality ==
    mapper = "parseRelationship" =>
        /\ mapped.c["cardinality"]
             = ListedCardinality(Get(raw, "fromCardinality"), Get(raw, "toCardinality"))
        /\ \A d \in RawDirections :
             parseRelationship(WithField(raw, "crossFilterDirection", d)).c["cardinality"]
                 = mapped.c["cardinality"]

\* C11 witness: a relationship with cardinalities ("*","*") that filters in
\* both directions has been normalized to OneToMany.
C11_Witness ==
    /\ mapper = "parseRelationship"
    /\ Get(raw, "fromCardinality") = Str("*")
    /\ Get(raw, "toCardinality") = Str("*")
    /\ Get(raw, "crossFilterDirection") = Str("Both")
    /\ mapped.c["cardinality"] = RelationshipCardinality.OneToMany

\* the cross-filtering table as the specification lists it
ListedCrossFiltering(direction) ==
    CASE direction = Str("Both") -> CrossFilteringBehavior.BothDirections
      [] direction = Str("OneDirection") -> CrossFilteringBehavior.OneDirection
      [] OTHER -> CrossFilteringBehavior.None

\* C12: a relationship's crossFilteringBehavior is BothDirections for the
\* raw crossFilterDirection "Both", OneDirection for "OneDirection" and None
\* for every other value, an absent one included.
C12_CrossFiltering ==
    mapper = "parseRelationship" =>
        mapped.c["crossFilteringBehavior"]
            = ListedCrossFiltering(Get(raw, "crossFilterDirection"))

\* C12 witness: a relationship without crossFilterDirection has been
\* normalized to the behavior None.
C12_Witness ==
    /\ mapper = "parseRelationship"
    /\ "crossFilterDirection" \notin DOMAIN raw.c
    /\ mapped.c["crossFilteringBehavior"] = CrossFilteringBehavior.None

-----------------------------------------------------------------------------
(* SpecDecode: files written in the four encodings, and arbitrary bytes,   *)
(* handed to detectAndDecodeBom                                            *)

MaxTextLen == 4
MaxBufLen == 4

\* the characters of the document texts, each as its UTF-16 code units:
\* U+0000, "A", U+00E9, U+20AC, U+FEFF and U+1F600
Chars == {<<0>>, <<65>>, <<233>>, <<8364>>, <<65279>>, <<55357, 56832>>}

RECURSIVE Concat(_)
Concat(ss) == IF Len(ss) = 0 THEN <<>> ELSE Head(ss) \o Concat(Tail(ss))

Texts == {Concat(cs) : cs \in SeqsUpTo(Chars, MaxTextLen)}

IsHighSurrogate(u) == u >= 55296 /\ u <= 56319
IsLowSurrogate(u) == u >= 56320 /\ u <= 57343

\* the UTF-8 bytes of code point cp
Utf8Bytes(cp) ==
    IF cp < 128 THEN <<cp>>
    ELSE IF cp < 2048 THEN <<192 + (cp \div 64), 128 + (cp % 64)>>
    ELSE IF cp < 65536
    THEN <<224 + (cp \div 4096), 128 + ((cp \div 64) % 64), 128 + (cp % 64)>>
    ELSE <<240 + (cp \div 262144), 128 + ((cp \div 4096) % 64),
           128 + ((cp \div 64) % 64), 128 + (cp % 64)>>

\* a well-formed text saved as UTF-8
RECURSIVE utf8Encode(_)
utf8Encode(str) ==
    IF Len(str) = 0 THEN <<>>
    ELSE IF Len(str) >= 2 /\ IsHighSurrogate(str[1]) /\ IsLowSurrogate(str[2])
    THEN Utf8Bytes(65536 + (str[1] - 55296) * 1024 + (str[2] - 56320))
         \o utf8Encode(Tail(Tail(str)))
    ELSE Utf8Bytes(Head(str)) \o utf8Encode(Tail(str))

\* a text saved as UTF-16, low byte first or high byte first
utf16leEncode(str) ==
    [i \in 1..(2 * Len(str)) |->
        IF i % 2 = 1 THEN str[(i + 1) \div 2] % 256 ELSE str[i \div 2] \div 256]
utf16beEncode(str) ==
    [i \in 1..(2 * Len(str)) |->
        IF i % 2 = 1 THEN str[(i + 1) \div 2] \div 256 ELSE str[i \div 2] % 256]

Encodings == {"utf8", "utf8bom", "utf16le", "utf16be"}

\* the bytes of the file that holds str in encoding enc
SavedAs(str, enc) ==
    CASE enc = "utf8" -> utf8Encode(str)
      [] enc = "utf8bom" -> <<239, 187, 191>> \o utf8Encode(str)
      [] enc = "utf16le" -> <<255, 254>> \o utf16leEncode(str)
      [] enc = "utf16be" -> <<254, 255>> \o utf16beEncode(str)

\* bytes that occur in markers, a zero, a letter and a stray byte
ByteAlphabet == {0, 65, 239, 187, 191, 255, 254}

\* filler that takes a buffer past the length the heuristic asks for
Filler == <<65, 0, 65, 0, 65, 0, 65>>

RawBuffers ==
    LET short == SeqsUpTo(ByteAlphabet, MaxBufLen)
    IN  short \cup {b \o Filler : b \in {x \in short : Len(x) = MaxBufLen}}

InitDecode ==
    InitDecodeIdle /\ InitJsonIdle /\ InitMapIdle /\ InitFileIdle /\ InitRepeatIdle

\* a document text is saved to a file in one of the four encodings
SaveFile ==
    /\ encoding = "none"
    /\ \E str \in Texts, enc \in Encodings :
         /\ text' = str
         /\ encoding' = enc
         /\ buffer' = SavedAs(str, enc)
    /\ UNCHANGED <<decoded, json, options, result, raw, mapper, mapped, calls, invocations>>

\* a file holds arbitrary bytes
RawFile ==
    /\ encoding = "none"
    /\ \E b \in RawBuffers : buffer' = b
    /\ encoding' = "raw"
    /\ UNCHANGED <<text, decoded, json, options, result, raw, mapper, mapped, calls, invocations>>

\* parseBimFile hands the bytes it read to detectAndDecodeBom
Decode ==
    /\ encoding # "none"
    /\ decoded = Pending
    /\ decoded' = detectAndDecodeBom(buffer)
    /\ UNCHANGED <<text, encoding, buffer, json, options, result, raw, mapper, mapped, calls, invocations>>

NextDecode == SaveFile \/ RawFile \/ Decode

SpecDecode == InitDecode /\ [][NextDecode]_vars

-----------------------------------------------------------------------------
(* Claims about detectAndDecodeBom (SpecDecode)                            *)

\* C8 as claimed: every document text comes back from each of its four
\* encodings, the marker removed.
C8_FourEncodingsRoundTrip ==
    (encoding \in Encodings /\ decoded # Pending) =>
        decoded.kind = "return" /\ decoded.value = text

HasNul(str) == \E i \in 1..Len(str) : str[i] = 0
StartsWithBom(str) == Len(str) >= 1 /\ str[1] = 65279

\* C8 amended: every document text comes back from its three encodings
\* that carry a marker; it comes back from UTF-8 without a marker when it
\* holds no U+0000 and does not begin with U+FEFF.
C8_MarkedEncodingsRoundTrip ==
    (encoding \in Encodings /\ decoded # Pending
       /\ (encoding = "utf8" => ~HasNul(text) /\ ~StartsWithBom(text))) =>
        decoded.kind = "return" /\ decoded.value = text

\* C8 witness: a text with a three-byte character and a surrogate pair
\* has been decoded from its UTF-16BE file.
C8_Witness ==
    /\ encoding = "utf16be" /\ decoded.kind = "return"
    /\ Len(text) >= 3 /\ text[1] = 8364 /\ text[2] = 55357
    /\ decoded.value = text

\* C9: detectAndDecodeBom returns a text for every byte sequence, of every
\* length; it never throws.
C9_DecodeNeverThrows ==
    decoded # Pending => decoded.kind = "return"

\* the bytes of b from position i on
From(b, i) == SubSeq(b, i, Len(b))

\* b starts with the bytes of marker
Leading(b, marker) ==
    Len(b) >= Len(marker) /\ SubSeq(b, 1, Len(marker)) = marker

\* UTF-16 text with the high byte first
Utf16beText(b) == [i \in 1..(Len(b) \div 2) |-> 256 * b[2 * i - 1] + b[2 * i]]

\* the text the five rules give, the first rule that applies deciding
TextByFirstRule(b) ==
    IF Leading(b, <<239, 187, 191>>) THEN toStringUtf8(From(b, 4))
    ELSE IF Leading(b, <<255, 254>>) THEN toStringUtf16le(From(b, 3))
    ELSE IF Leading(b, <<254, 255>>) THEN Utf16beText(From(b, 3))
    ELSE IF /\ Len(b) >= 4 /\ b[2] = 0 /\ b[4] = 0
            /\ (b[1] # 0 \/ (Len(b) > 10 /\ b[3] = 0 /\ b[5] = 0))
    THEN toStringUtf16le(b)
    ELSE toStringUtf8(b)

\* C19: for every byte sequence detectAndDecodeBom decodes by the first
\* rule that applies: EF BB BF, UTF-8 without the marker; FF FE, UTF-16LE
\* without the marker; FE FF, UTF-16BE without the marker; no marker,
\* length >= 4, bytes 1 and 3 zero and (byte 0 non-zero, or length > 10 and
\* bytes 2 and 4 zero), UTF-16LE of the whole buffer; otherwise UTF-8.
C19_EncodingByFirstRule ==
    decoded # Pending => decoded = Return(TextByFirstRule(buffer))

-----------------------------------------------------------------------------
(* Document loader (parsers/bim-parser.js) and the files it reads          *)

\* {"model":{"name":"S","tables":[{"name":"T","isHidden":true}]}}
ModelText ==
    <<123, 34, 109, 111, 100, 101, 108, 34, 58, 123, 34, 110, 97, 109, 101,
      34, 58, 34, 83, 34, 44, 34, 116, 97, 98, 108, 101, 115, 34, 58, 91,
      123, 34, 110, 97, 109, 101, 34, 58, 34, 84, 34, 44, 34, 105, 115, 72,
      105, 100, 100, 101, 110, 34, 58, 116, 114, 117, 101, 125, 93, 125, 125>>

\* {"model":{}}
MinimalText ==
    <<123, 34, 109, 111, 100, 101, 108, 34, 58, 123, 125, 125>>

\* {"name":"Test"}
NoModelText ==
    <<123, 34, 110, 97, 109, 101, 34, 58, 34, 84, 101, 115, 116, 34, 125>>

\* null
NullText ==
    <<110, 117, 108, 108>>

\* ' 1 '
NumberText ==
    <<32, 49, 32>>

\* []
ArrayText ==
    <<91, 93>>

\* {"model":null}
ModelNullText ==
    <<123, 34, 109, 111, 100, 101, 108, 34, 58, 110, 117, 108, 108, 125>>

\* {"model":{"tables":[null]}}
NullTableText ==
    <<123, 34, 109, 111, 100, 101, 108, 34, 58, 123, 34, 116, 97, 98, 108,
      101, 115, 34, 58, 91, 110, 117, 108, 108, 93, 125, 125>>

\* {"model":
TruncatedText ==
    <<123, 34, 109, 111, 100, 101, 108, 34, 58>>

\* the file system: what fs.readFile finds at each path
File(bytes) == [kind |-> "file", bytes |-> bytes]
NoFile(kind) == [kind |-> kind, bytes |-> <<>>]

FileSystem ==
    [p \in {"model.bim"} |-> File(SavedAs(ModelText, "utf8"))]
    @@ [p \in {"model-bom.bim"} |-> File(SavedAs(ModelText, "utf8bom"))]
    @@ [p \in {"model-utf16le.bim"} |-> File(SavedAs(ModelText, "utf16le"))]
    @@ [p \in {"model-utf16be.bim"} |-> File(SavedAs(ModelText, "utf16be"))]
    @@ [p \in {"minimal-utf16le-nobom.bim"} |-> File(utf16leEncode(MinimalText))]
    @@ [p \in {"nomodel.bim"} |-> File(SavedAs(NoModelText, "utf8"))]
    @@ [p \in {"null.bim"} |-> File(SavedAs(NullText, "utf8"))]
    @@ [p \in {"number.bim"} |-> File(SavedAs(NumberText, "utf8bom"))]
    @@ [p \in {"array.bim"} |-> File(SavedAs(ArrayText, "utf16be"))]
    @@ [p \in {"model-null.bim"} |-> File(SavedAs(ModelNullText, "utf8"))]
    @@ [p \in {"null-table.bim"} |-> File(SavedAs(NullTableText, "utf16le"))]
    @@ [p \in {"truncated.bim"} |-> File(SavedAs(TruncatedText, "utf8"))]
    @@ [p \in {"empty.bim"} |-> File(<<>>)]
    @@ [p \in {"odd-utf16be.bim"} |-> File(<<254, 255, 0, 123, 0>>)]
    @@ [p \in {"missing.bim"} |-> NoFile("missing")]
    @@ [p \in {"folder"} |-> NoFile("directory")]
    @@ [p \in {"denied.bim"} |-> NoFile("denied")]

Paths == DOMAIN FileSystem

\* await fs.readFile(filePath): the bytes, or the system error
readFile(filePath) ==
    LET entry == FileSystem[filePath]
    IN  CASE entry.kind = "file" -> Return(entry.bytes)
          [] entry.kind = "missing" -> Throw(NativeError("Error", Str("ENOENT")))
          [] entry.kind = "directory" -> Throw(NativeError("Error", Str("EISDIR")))
          [] entry.kind = "denied" -> Throw(NativeError("Error", Str("EACCES")))

\* faulty variant: the catch block tests SyntaxError before TomParserError and
\* wraps without the cause
CatchNoCause(error) ==
    IF error.name = "SyntaxError" THEN TomParserError(INVALID_JSON, Undefined)
    ELSE IF error.name = "TomParserError" THEN error
    ELSE IF error.code = Str("ENOENT") THEN TomParserError(FILE_NOT_FOUND, error)
    ELSE TomParserError("UNKNOWN", error)

\* faulty variant: the ENOENT test left out of the catch block
CatchNoEnoent(error) ==
    IF error.name = "TomParserError" THEN error
    ELSE IF error.name = "SyntaxError" THEN TomParserError(INVALID_JSON, error)
    ELSE TomParserError("UNKNOWN", error)

\* the catch block of parseBimFile: the error it rethrows
Catch(error) ==
    IF error.name = "TomParserError" THEN error
    ELSE IF error.code = Str("ENOENT") THEN TomParserError(FILE_NOT_FOUND, error)
    ELSE IF error.name = "SyntaxError" THEN TomParserError(INVALID_JSON, error)
    ELSE TomParserError("UNKNOWN", error)

\* one run of parseBimFile: the steps it started, in order, the error the
\* last step threw (if any) and how the returned promise settles
Run(steps, failure, completion) ==
    [steps |-> steps, failure |-> failure, completion |-> completion]
NoRun == Run(<<>>, Undefined, Pending)
Rejected(steps, error) == Run(steps, error, Throw(Catch(error)))

parseBimFile(filePath, opts) ==
    LET read == readFile(filePath)
    IN  IF read.kind = "throw" THEN Rejected(<<"read">>, read.error)
        ELSE
        LET content == detectAndDecodeBom(read.value)
        IN  IF content.kind = "throw"
            THEN Rejected(<<"read", "decode">>, content.error)
            ELSE
            LET parsed == JSONparse(content.value)
            IN  IF parsed.kind = "throw"
                THEN Rejected(<<"read", "decode", "deserialize">>, parsed.error)
                ELSE
                LET assembled == parseBimJson(parsed.value, opts)
                    steps == <<"read", "decode", "deserialize", "assemble">>
                IN  IF assembled.kind = "throw"
                    THEN Rejected(steps, assembled.error)
                    ELSE Run(steps, Undefined, assembled)

-----------------------------------------------------------------------------
(* Spec: parseBimFile calls in progress.  A call suspends once, at the     *)
(* file read; what follows the read runs to completion without yielding.   *)

FileOptions == {Undefined, Obj([includeHiddenObjects |-> False])}

\* the calls that can be in progress at the same time
NumCalls == 2
CallIds == 1..NumCalls

\* every run, computed once
Runs == [p \in Paths |-> [o \in FileOptions |-> parseBimFile(p, o)]]

IdleCall ==
    [pc |-> "idle", filePath |-> "", options |-> Undefined, run |-> NoRun]

Init ==
    /\ calls = [c \in CallIds |-> IdleCall]
    /\ InitJsonIdle /\ InitMapIdle /\ InitDecodeIdle /\ InitRepeatIdle

\* a caller invokes parseBimFile(filePath, opts): the call issues the read
\* and suspends
Call(c) ==
    /\ calls[c].pc = "idle"
    /\ \E p \in Paths, o \in FileOptions :
         calls' = [calls EXCEPT ![c] =
                     [pc |-> "reading", filePath |-> p, options |-> o, run |-> NoRun]]
    /\ UNCHANGED <<json, options, result, raw, mapper, mapped,
                   text, encoding, buffer, decoded, invocations>>

\* faulty variant: the options kept in one variable that every call writes
\* when it starts, so that a resumed call reads those of the call with the
\* highest id among the calls made
ResumeSharingOptions(c, cs) ==
    LET made == {d \in DOMAIN cs : cs[d].pc # "idle"}
        last == CHOOSE d \in made : \A e \in made : e <= d
    IN  Runs[cs[c].filePath][cs[last].options]

\* what call c does once its read has settled, cs being the state of all
\* calls: filePath, options, buffer, content and json are parameters and
\* locals of the call itself, and nothing else is read
Resume(c, cs) == Runs[cs[c].filePath][cs[c].options]

\* the read of call c settles and the call runs to its end
ReadSettles(c) ==
    /\ calls[c].pc = "reading"
    /\ calls' = [calls EXCEPT ![c].pc = "settled", ![c].run = Resume(c, calls)]
    /\ UNCHANGED <<json, options, result, raw, mapper, mapped,
                   text, encoding, buffer, decoded, invocations>>

Next == \E c \in CallIds : Call(c) \/ ReadSettles(c)

Spec == Init /\ [][Next]_vars

-----------------------------------------------------------------------------
(* Claims about parseBimFile (Spec)                                        *)

AllSteps == <<"read", "decode", "deserialize", "assemble">>
Settled(c) == calls[c].pc = "settled"
RejectedCall(c) == Settled(c) /\ calls[c].run.completion.kind = "throw"
RejectedWith(c, code) ==
    RejectedCall(c) /\ calls[c].run.completion.error.code = Str(code)
LastStep(c) == calls[c].run.steps[Len(calls[c].run.steps)]
IsError(e) == "name" \in DOMAIN e

C4_EveryRejectionHasCause ==
    \A c \in CallIds : RejectedCall(c) =>
        IsError(calls[c].run.completion.error.cause)

\* C4 amended: an error with code FILE_NOT_FOUND, INVALID_JSON or UNKNOWN
\* carries as its cause the error that the failed step threw; an error with
\* code MISSING_REQUIRED_FIELD is the one parseBimJson threw and has no
\* cause.
C4_WrappedRejectionHasCause ==
    \A c \in CallIds : RejectedCall(c) =>
        LET run == calls[c].run
            err == run.completion.error
        IN  IF err.code.s \in {FILE_NOT_FOUND, INVALID_JSON, "UNKNOWN"}
            THEN /\ IsError(err.cause)
                 /\ err.cause = run.failure
                 /\ err.cause.name # "TomParserError"
            ELSE /\ err.code.s = MISSING_REQUIRED_FIELD
                 /\ err = run.failure
                 /\ ~IsError(err.cause)

\* C4 witness: a call has been rejected with INVALID_JSON whose cause is
\* the SyntaxError of JSON.parse.
C4_Witness ==
    \E c \in CallIds :
        /\ RejectedWith(c, INVALID_JSON)
        /\ IsError(calls[c].run.completion.error.cause)
        /\ calls[c].run.completion.error.cause.name = "SyntaxError"

====
